---------------------------- MODULE Spec2Model ----------------------------
(***************************************************************************)
(* A model of rush's configuration loading:                                *)
(*   - RushConfig.loadFromDefaultLocation, RushConfig.loadFromConfigFile   *)
(*     and the RushConfig constructor (src/unnamed/part_000), with the     *)
(*     temp-name generator;                                                *)
(*   - the two build-cache JSON schemas                                    *)
(*     (src/apps/rush-lib/src/schemas/project-build-cache.schema.json).    *)
(*                                                                         *)
(* Optional JSON fields are sequences of length 0 (absent) or 1.           *)
(* A path is the sequence of its segments below the filesystem root.       *)
(***************************************************************************)
EXTENDS Integers, Sequences, FiniteSets, TLC

VARIABLES
    rushConfigJson,      \* the object loaded from rush.json
    pc,                  \* position inside loadFromConfigFile / the constructor
    error,               \* message of the Error thrown ("" while none)
    schemaValidated,     \* validator.validate() has been called
    tempNamesByProject,  \* Map<IRushConfigProjectJson, string>, by array position
    projects,            \* this._projects
    projectsByName,      \* this._projectsByName: packageName -> index in projects
    idx,                 \* position of the running for..of loop
    schemaName,          \* which cache schema is applied
    configJson,          \* the cache configuration object being validated
    verdict,             \* "pending", "accepted" or "rejected"
    cwd,                 \* process.cwd()
    rushJsonFolders,     \* the folders that contain a file rush.json
    currentFolder,       \* the folder loadFromDefaultLocation looks at
    i,                   \* the counter of its for loop
    examined,            \* the files fs.existsSync was asked about, in order
    rushJsonFilename     \* the file handed to loadFromConfigFile (<<>>: none)

loadVars == <<rushConfigJson, pc, error, schemaValidated, tempNamesByProject,
              projects, projectsByName, idx>>
schemaVars == <<schemaName, configJson, verdict>>
locateVars == <<cwd, rushJsonFolders, currentFolder, i, examined, rushJsonFilename>>
vars == <<rushConfigJson, pc, error, schemaValidated, tempNamesByProject,
          projects, projectsByName, idx, schemaName, configJson, verdict,
          cwd, rushJsonFolders, currentFolder, i, examined, rushJsonFilename>>

---------------------------------------------------------------------------
(* Bounds *)

\* longest "projects" array of a rush.json
MaxProjects == 3

---------------------------------------------------------------------------
(* Package names *)

\* The package names of the model, as (scope, name) pairs.
PackageNameParts ==
    { [scope |-> "@a", name |-> "x"],
      [scope |-> "@b", name |-> "x"],
      [scope |-> "",   name |-> "x"],
      [scope |-> "",   name |-> "x-1"] }

FullName(p) == IF p.scope = "" THEN p.name ELSE p.scope \o "/" \o p.name

PackageNames == { FullName(p) : p \in PackageNameParts }

\* Utilities.parseScopedPackgeName: "@ms/MyProject" -> name "MyProject"
parseScopedPackgeName(packageName) ==
    CHOOSE p \in PackageNameParts : FullName(p) = packageName

\* The collation order of the model's package names.
LocaleOrder == <<"@a/x", "@b/x", "x", "x-1">>

LocaleRank(s) == CHOOSE k \in 1..Len(LocaleOrder) : LocaleOrder[k] = s

\* String.prototype.localeCompare: negative, zero or positive
localeCompare(s, t) ==
    IF LocaleRank(s) < LocaleRank(t) THEN -1
    ELSE IF LocaleRank(s) > LocaleRank(t) THEN 1 ELSE 0

---------------------------------------------------------------------------
(* rush.json *)

\* names a package.json may list under "dependencies"
DependencyNames == {"@a/x", "@b/x"}

\* names a project may list under "cyclicDependencyProjects"
CyclicNames == {"@b/x"}

\* the duplicate-free sequences over a set: the key orders of an object
KeyOrders(S) ==
    { s \in UNION { [1..n -> S] : n \in 0..Cardinality(S) } :
        \A a, b \in 1..Len(s) : a # b => s[a] # s[b] }

\* What an entry of "projects" holds besides its name; dependencies are the
\* keys of "dependencies" in the package.json of its folder, in their order
\* (a package.json without "dependencies" is the one with no keys).
ProjectShapes ==
    [ cyclicDependencyProjects : SUBSET CyclicNames,
      dependencies : KeyOrders(DependencyNames) ]

\* one entry of "projects"
ProjectJson(packageName, shape) ==
    [ packageName |-> packageName,
      cyclicDependencyProjects |-> shape.cyclicDependencyProjects,
      dependencies |-> shape.dependencies ]

\* the shape without dependencies and without cyclicDependencyProjects
PlainShape == [ cyclicDependencyProjects |-> {}, dependencies |-> <<>> ]

\* a "projects" array: the k-th entry has the k-th name and the k-th shape
ProjectList(names, shapes) ==
    [ k \in 1..Len(names) |-> ProjectJson(names[k], shapes[k]) ]

\* no package name is repeated
DistinctNames(names) ==
    \A a, b \in 1..Len(names) : a # b => names[a] # names[b]

\* rushVersion, imported from ../rushVersion
rushVersion == "1.0.0"

SemVers ==
    [ v \in {"0.9.0", "1.0.0", "1.1.0"} |->
        CASE v = "0.9.0" -> <<0, 9, 0>>
          [] v = "1.0.0" -> <<1, 0, 0>>
          [] v = "1.1.0" -> <<1, 1, 0>> ]

\* "rushMinimumVersion" of rush.json: absent, empty, malformed, or a version
RushMinimumVersions ==
    { <<>>, <<"">>, <<"latest">>, <<"0.9.0">>, <<"1.0.0">>, <<"1.1.0">> }

\* semver.valid
semverValid(v) == v \in DOMAIN SemVers

\* semver.lt
semverLt(a, b) ==
    LET x == SemVers[a]
        y == SemVers[b]
    IN  \/ x[1] < y[1]
        \/ x[1] = y[1] /\ x[2] < y[2]
        \/ x[1] = y[1] /\ x[2] = y[2] /\ x[3] < y[3]

\* a rush.json; schemaValid: whether rush-schema.json accepts the object
RushConfigJson(rushMinimumVersion, schemaValid, projectJsons) ==
    [ rushMinimumVersion |-> rushMinimumVersion,
      schemaValid |-> schemaValid,
      projects |-> projectJsons ]

---------------------------------------------------------------------------
(* loadFromConfigFile *)

VersionError(rushMinimumVersion) ==
    "Your rush tool is version " \o rushVersion \o ", but rush.json requires version "
        \o rushMinimumVersion \o " or newer."

\* the version test with the operands of semver.lt exchanged
VersionTooOld_Swapped(rushMinimumVersion) ==
    /\ rushMinimumVersion # <<>>
    /\ rushMinimumVersion[1] # ""
    /\ semverValid(rushMinimumVersion[1])
    /\ semverLt(rushMinimumVersion[1], rushVersion)

\* the version test of loadFromConfigFile
VersionTooOld(rushMinimumVersion) ==
    /\ rushMinimumVersion # <<>>
    /\ rushMinimumVersion[1] # ""
    /\ semverValid(rushMinimumVersion[1])
    /\ semverLt(rushVersion, rushMinimumVersion[1])

\* Check the Rush version *before* we validate the schema
CheckRushVersion ==
    /\ pc = "loaded"
    /\ IF VersionTooOld(rushConfigJson.rushMinimumVersion)
       THEN /\ pc' = "error"
            /\ error' = VersionError(rushConfigJson.rushMinimumVersion[1])
       ELSE /\ pc' = "versionChecked"
            /\ error' = error
    /\ UNCHANGED <<rushConfigJson, schemaValidated, tempNamesByProject, projects,
                   projectsByName, idx, schemaVars, locateVars>>

SchemaError == "Error parsing file 'rush.json'"

\* validator.validate(rushConfigJson, rushSchema)
ValidateSchema ==
    /\ pc = "versionChecked"
    /\ schemaValidated' = TRUE
    /\ IF ~rushConfigJson.schemaValid
       THEN /\ pc' = "error"
            /\ error' = SchemaError
       ELSE /\ pc' = "validated"
            /\ error' = error
    /\ UNCHANGED <<rushConfigJson, tempNamesByProject, projects, projectsByName,
                   idx, schemaVars, locateVars>>

---------------------------------------------------------------------------
(* The constructor, up to the project list *)

\* What the constructor reads besides the project list: fields of rush.json
\* and the folders it tests.
EnvironmentFields ==
    [ nodeSupportedVersionRange : {"absent", "malformed", "unsatisfied", "satisfied"},
      commonFolderExists : BOOLEAN,
      homeFolderExists : BOOLEAN,
      projectFolderMinDepth : {<<>>, <<0>>, <<3>>},
      projectFolderMaxDepth : {<<>>, <<0>>, <<3>>},
      packageReviewFile : {"absent", "missing", "found"} ]

\* an environment in which the constructor reaches the projects
GoodEnvironment ==
    [ nodeSupportedVersionRange |-> "absent",
      commonFolderExists |-> TRUE,
      homeFolderExists |-> TRUE,
      projectFolderMinDepth |-> <<>>,
      projectFolderMaxDepth |-> <<>>,
      packageReviewFile |-> "absent" ]

\* the environments of the model: GoodEnvironment with at most one field changed
Environments ==
    { env \in EnvironmentFields :
        Cardinality({ f \in DOMAIN env : env[f] # GoodEnvironment[f] }) <= 1 }

\* the first Error the constructor throws before it reaches the projects
PreambleError(env) ==
    LET minDepth == IF env.projectFolderMinDepth # <<>>
                    THEN env.projectFolderMinDepth[1] ELSE 1
        maxDepth == IF env.projectFolderMaxDepth # <<>>
                    THEN env.projectFolderMaxDepth[1] ELSE 2
    IN  IF env.nodeSupportedVersionRange = "malformed"
        THEN "Error parsing the node-semver expression in the nodeSupportedVersionRange"
        ELSE IF env.nodeSupportedVersionRange = "unsatisfied"
        THEN "Your dev environment is running a Node.js version which does not meet the requirements"
        ELSE IF ~env.commonFolderExists
        THEN "Rush common folder does not exist"
        ELSE IF ~env.homeFolderExists
        THEN "Unable to determine the current user's home directory"
        ELSE IF minDepth < 1
        THEN "Invalid projectFolderMinDepth; the minimum possible value is 1"
        ELSE IF maxDepth < minDepth
        THEN "The projectFolderMaxDepth cannot be smaller than the projectFolderMinDepth"
        ELSE IF env.packageReviewFile = "missing"
        THEN "The packageReviewFile file was not found"
        ELSE ""

ConstructorPreamble ==
    /\ pc = "validated"
    /\ \E env \in Environments :
         IF PreambleError(env) # ""
         THEN /\ pc' = "error"
              /\ error' = PreambleError(env)
         ELSE /\ pc' = "configured"
              /\ error' = error
    /\ projects' = <<>>
    /\ projectsByName' = <<>>
    /\ UNCHANGED <<rushConfigJson, schemaValidated, tempNamesByProject, idx,
                   schemaVars, locateVars>>

---------------------------------------------------------------------------
(* _generateTempNamesForProjects *)

\* a comparator that orders the projects by packageName
SortComparator_ByName(a, b) == localeCompare(a.packageName, b.packageName)

\* the comparator handed to Array.prototype.sort
SortComparator(a, b) == localeCompare(a.packageName, a.packageName)

\* Array.prototype.sort is stable: x goes behind every element of the sorted
\* prefix that the comparator does not place after it.
InsertSorted(sorted, x) ==
    LET after == { k \in 1..Len(sorted) : SortComparator(sorted[k], x) > 0 }
        pos == IF after = {} THEN Len(sorted) + 1
               ELSE CHOOSE k \in after : \A m \in after : k <= m
    IN  SubSeq(sorted, 1, pos - 1) \o <<x>> \o SubSeq(sorted, pos, Len(sorted))

RECURSIVE SortProjects(_)
SortProjects(projectJsons) ==
    IF projectJsons = <<>> THEN <<>>
    ELSE InsertSorted(SortProjects(SubSeq(projectJsons, 1, Len(projectJsons) - 1)),
                      projectJsons[Len(projectJsons)])

\* the name tried with the counter at a value
CandidateName(unscopedName, counter) ==
    IF counter = 0 THEN "rush-" \o unscopedName
    ELSE "rush-" \o unscopedName \o "-" \o ToString(counter)

RECURSIVE ProbeName(_, _, _)
ProbeName(unscopedName, counter, usedTempNames) ==
    IF CandidateName(unscopedName, counter) \in usedTempNames
    THEN ProbeName(unscopedName, counter + 1, usedTempNames)
    ELSE CandidateName(unscopedName, counter)

\* the loop as an if: the counter is tried once
UniqueTempName_TriedOnce(unscopedName, usedTempNames) ==
    IF CandidateName(unscopedName, 0) \in usedTempNames
    THEN CandidateName(unscopedName, 1)
    ELSE CandidateName(unscopedName, 0)

\* the while loop: a name like "rush-MyProject" that is not in usedTempNames
UniqueTempName(unscopedName, usedTempNames) ==
    ProbeName(unscopedName, 0, usedTempNames)

\* the for..of loop over the sorted array: the temp names, by position
RECURSIVE AssignTempNames(_)
AssignTempNames(sortedProjectJsons) ==
    IF sortedProjectJsons = <<>> THEN <<>>
    ELSE LET n == Len(sortedProjectJsons)
             earlier == AssignTempNames(SubSeq(sortedProjectJsons, 1, n - 1))
             usedTempNames == { earlier[k] : k \in 1..Len(earlier) }
             unscopedName == parseScopedPackgeName(sortedProjectJsons[n].packageName).name
         IN  Append(earlier, UniqueTempName(unscopedName, usedTempNames))

\* sort() sorts rushConfigJson.projects in place; the Map is keyed by the
\* entries, which the constructor's loop visits in the array's new order.
GenerateTempNamesForProjects ==
    /\ pc = "configured"
    /\ LET sortedProjectJsons == SortProjects(rushConfigJson.projects)
       IN  /\ rushConfigJson' = [rushConfigJson EXCEPT !.projects = sortedProjectJsons]
           /\ tempNamesByProject' = AssignTempNames(sortedProjectJsons)
    /\ pc' = IF rushConfigJson.projects = <<>> THEN "done" ELSE "addProjects"
    /\ idx' = 1
    /\ UNCHANGED <<error, schemaValidated, projects, projectsByName, schemaVars, locateVars>>

---------------------------------------------------------------------------
(* The constructor's two loops over the projects *)

\* new RushConfigProject(projectJson, this, tempProjectName)
RushConfigProject(projectJson, tempProjectName) ==
    [ packageName |-> projectJson.packageName,
      cyclicDependencyProjects |-> projectJson.cyclicDependencyProjects,
      dependencies |-> projectJson.dependencies,
      tempProjectName |-> tempProjectName,
      downstreamDependencyProjects |-> <<>> ]

DuplicateError(packageName) ==
    "The project name \"" \o packageName \o "\" was specified more than once in the rush.json config file."

\* this._projectsByName.get(name) finds a project
HasProject(byName, name) == name \in DOMAIN byName

\* this._projectsByName.set(name, project)
MapSet(byName, name, ref) ==
    [ k \in DOMAIN byName \cup {name} |-> IF k = name THEN ref ELSE byName[k] ]

\* the lookup made with the temp name instead of the package name
IsDuplicate_ByTempName(byName, project) == HasProject(byName, project.tempProjectName)

\* this._projectsByName.get(project.packageName) is truthy
IsDuplicate(byName, project) == HasProject(byName, project.packageName)

\* one pass of the first loop: build the project, push it, then register it
AddProject ==
    /\ pc = "addProjects"
    /\ LET projectJson == rushConfigJson.projects[idx]
           project == RushConfigProject(projectJson, tempNamesByProject[idx])
       IN  /\ projects' = Append(projects, project)
           /\ IF IsDuplicate(projectsByName, project)
              THEN /\ pc' = "error"
                   /\ error' = DuplicateError(project.packageName)
                   /\ UNCHANGED <<projectsByName, idx>>
              ELSE /\ projectsByName' = MapSet(projectsByName, project.packageName,
                                               Len(projects) + 1)
                   /\ error' = error
                   /\ IF idx = Len(rushConfigJson.projects)
                      THEN pc' = "linkProjects" /\ idx' = 1
                      ELSE pc' = "addProjects" /\ idx' = idx + 1
    /\ UNCHANGED <<rushConfigJson, schemaValidated, tempNamesByProject, schemaVars, locateVars>>

CyclicError(cyclicDependencyProject, packageName) ==
    "In rush.json, the \"" \o cyclicDependencyProject \o "\" project does not exist,"
        \o " but was referenced by the cyclicDependencyProjects for " \o packageName

\* this.getProjectByName(projectName) finds a project
getProjectByName(byName, projectName) == HasProject(byName, projectName)

\* the test without its negation
UnknownCyclic_Inverted(project, byName) ==
    { c \in project.cyclicDependencyProjects : getProjectByName(byName, c) }

\* the entries of cyclicDependencyProjects that getProjectByName does not find
UnknownCyclic(project, byName) ==
    { c \in project.cyclicDependencyProjects : ~getProjectByName(byName, c) }

\* a loop that also refuses a project that depends on itself
LinkErrors_NoSelfDependency(project, byName) ==
    { CyclicError(c, project.packageName) : c \in UnknownCyclic(project, byName) }
        \cup IF \E k \in 1..Len(project.dependencies) :
                    project.dependencies[k] = project.packageName
             THEN { "cyclic dependency: " \o project.packageName }
             ELSE {}

\* the Errors one pass of the second loop can throw
LinkErrors(project, byName) ==
    { CyclicError(c, project.packageName) : c \in UnknownCyclic(project, byName) }

\* the push of the dependency's name instead of the dependent's
RECURSIVE PushDownstream_DependencyName(_, _, _, _, _)
PushDownstream_DependencyName(projs, byName, dependencies, k, packageName) ==
    IF k > Len(dependencies) THEN projs
    ELSE LET dependencyName == dependencies[k]
             pushed ==
                 IF HasProject(byName, dependencyName)
                 THEN [projs EXCEPT ![byName[dependencyName]].downstreamDependencyProjects =
                                        Append(@, dependencyName)]
                 ELSE projs
         IN  PushDownstream_DependencyName(pushed, byName, dependencies, k + 1, packageName)

\* depProject.downstreamDependencyProjects.push(packageName), for the keys of
\* dependencies from the k-th on, in their order
RECURSIVE PushDownstream(_, _, _, _, _)
PushDownstream(projs, byName, dependencies, k, packageName) ==
    IF k > Len(dependencies) THEN projs
    ELSE LET dependencyName == dependencies[k]
             pushed ==
                 IF HasProject(byName, dependencyName)
                 THEN [projs EXCEPT ![byName[dependencyName]].downstreamDependencyProjects =
                                        Append(@, packageName)]
                 ELSE projs
         IN  PushDownstream(pushed, byName, dependencies, k + 1, packageName)

\* one pass of the second loop: check the cyclicDependencyProjects, then
\* compute the downstream dependencies
LinkProject ==
    /\ pc = "linkProjects"
    /\ LET project == projects[idx]
           thrown == LinkErrors(project, projectsByName)
       IN  IF thrown # {}
           THEN /\ pc' = "error"
                /\ error' \in thrown
                /\ UNCHANGED <<projects, idx>>
           ELSE /\ projects' = PushDownstream(projects, projectsByName,
                                              project.dependencies, 1, project.packageName)
                /\ error' = error
                /\ IF idx = Len(projects)
                   THEN pc' = "done" /\ idx' = idx
                   ELSE pc' = "linkProjects" /\ idx' = idx + 1
    /\ UNCHANGED <<rushConfigJson, schemaValidated, tempNamesByProject,
                   projectsByName, schemaVars, locateVars>>

---------------------------------------------------------------------------
(* JSON values and the schemas of the build cache *)

\* A JSON value: its type, with the text of a scalar, the items of an array
\* or the members of an object.
Str(s) == [kind |-> "string", text |-> s, items |-> <<>>, members |-> <<>>]
Num(n) == [kind |-> "number", text |-> ToString(n), items |-> <<>>, members |-> <<>>]
Arr(a) == [kind |-> "array", text |-> "", items |-> a, members |-> <<>>]
Obj(m) == [kind |-> "object", text |-> "", items |-> <<>>, members |-> m]

\* a value has one of the types a "type" keyword lists
TypeOk(types, v) ==
    \/ v.kind \in types
    \/ v.kind = "number" /\ "integer" \in types

\* the schema a "$ref" points to
ResolveRef(root, ref) ==
    CASE ref = "#/definitions/anything" -> root.definitions.anything

\* Validation by the keywords of draft-04 that the two schemas use.
RECURSIVE Validate(_, _, _)
Validate(root, schema, v) ==
    IF "$ref" \in DOMAIN schema
    THEN Validate(root, ResolveRef(root, schema["$ref"]), v)
    ELSE
    /\ "type" \in DOMAIN schema => TypeOk(schema.type, v)
    /\ "enum" \in DOMAIN schema =>
         \E e \in schema.enum : e.kind = v.kind /\ e.text = v.text
    /\ ("required" \in DOMAIN schema /\ v.kind = "object") =>
         schema.required \subseteq DOMAIN v.members
    /\ ("properties" \in DOMAIN schema /\ v.kind = "object") =>
         \A k \in DOMAIN schema.properties \cap DOMAIN v.members :
             Validate(root, schema.properties[k], v.members[k])
    /\ ("additionalProperties" \in DOMAIN schema /\ v.kind = "object") =>
         \/ schema.additionalProperties
         \/ DOMAIN v.members \subseteq
                (IF "properties" \in DOMAIN schema THEN DOMAIN schema.properties ELSE {})
    /\ ("items" \in DOMAIN schema /\ v.kind = "array") =>
         \A k \in 1..Len(v.items) : Validate(root, schema.items, v.items[k])
    /\ "allOf" \in DOMAIN schema =>
         \A k \in 1..Len(schema.allOf) : Validate(root, schema.allOf[k], v)
    /\ "oneOf" \in DOMAIN schema =>
         Cardinality({ k \in 1..Len(schema.oneOf) :
                         Validate(root, schema.oneOf[k], v) }) = 1

\* the schema of a project's cache override
ProjectBuildCacheSchema ==
    [ type |-> {"object"},
      properties |-> ("$schema" :> [type |-> {"string"}]),
      oneOf |-> <<
        [ required |-> {"additionalProjectOutputFolderNames"},
          properties |->
            [ additionalProjectOutputFolderNames |->
                [ type |-> {"array"}, items |-> [type |-> {"string"}] ] ] ],
        [ required |-> {"projectOutputFolderNames"},
          properties |->
            [ projectOutputFolderNames |->
                [ type |-> {"array"}, items |-> [type |-> {"string"}] ] ] ] >> ]

\* "definitions" of the build-cache schema
BuildCacheDefinitions ==
    [ anything |->
        [ type |-> {"array", "boolean", "integer", "number", "object", "string"},
          items |-> ("$ref" :> "#/definitions/anything") ] ]

\* the first member of allOf: what every configuration holds
BuildCacheCommon ==
    [ required |-> {"cacheProvider", "projectOutputFolderNames"},
      properties |->
        ("$schema" :> [type |-> {"string"}])
        @@ [ cacheProvider |->
               [ type |-> {"string"},
                 enum |-> {Str("filesystem"), Str("azure-blob-storage")} ],
             projectOutputFolderNames |->
               [ type |-> {"array"}, items |-> [type |-> {"string"}] ] ] ]

\* the filesystem variant without additionalProperties
FilesystemVariant_Open ==
    [ properties |->
        [ cacheProvider |-> [ type |-> {"string"}, enum |-> {Str("filesystem")} ],
          projectOutputFolderNames |-> ("$ref" :> "#/definitions/anything") ] ]

\* the first member of oneOf: cacheProvider "filesystem"
FilesystemVariant ==
    [ additionalProperties |-> FALSE,
      properties |->
        [ cacheProvider |-> [ type |-> {"string"}, enum |-> {Str("filesystem")} ],
          projectOutputFolderNames |-> ("$ref" :> "#/definitions/anything") ] ]

\* "azureBlobStorageConfiguration"
AzureBlobStorageConfiguration ==
    [ type |-> {"object"},
      required |-> {"storageAccountName", "storageContainerName"},
      properties |->
        [ storageAccountName |-> [type |-> {"string"}],
          storageContainerName |-> [type |-> {"string"}],
          azureEnvironment |->
            [ type |-> {"string"},
              enum |-> { Str("AzurePublicCloud"), Str("AzureChina"),
                         Str("AzureGermany"), Str("AzureGovernment") } ],
          blobPrefix |-> [type |-> {"string"}],
          isCacheWriteAllowed |-> [type |-> {"boolean"}] ] ]

\* the second member of oneOf: cacheProvider "azure-blob-storage"
AzureVariant ==
    [ additionalProperties |-> FALSE,
      required |-> {"azureBlobStorageConfiguration"},
      properties |->
        [ cacheProvider |->
            [ type |-> {"string"}, enum |-> {Str("azure-blob-storage")} ],
          projectOutputFolderNames |-> ("$ref" :> "#/definitions/anything"),
          azureBlobStorageConfiguration |-> AzureBlobStorageConfiguration ] ]

\* the schema of build-cache.json
BuildCacheSchema ==
    [ definitions |-> BuildCacheDefinitions,
      type |-> {"object"},
      allOf |-> << BuildCacheCommon,
                   [ oneOf |-> << FilesystemVariant, AzureVariant >> ] >> ]

\* the schema of a name
SchemaNamed(name) ==
    CASE name = "project-build-cache" -> ProjectBuildCacheSchema
      [] name = "build-cache" -> BuildCacheSchema

\* a configuration file is checked against its schema
ValidateConfiguration ==
    /\ verdict = "pending"
    /\ schemaName \in {"project-build-cache", "build-cache"}
    /\ verdict' = IF Validate(SchemaNamed(schemaName), SchemaNamed(schemaName), configJson)
                  THEN "accepted" ELSE "rejected"
    /\ UNCHANGED <<loadVars, schemaName, configJson, locateVars>>

(* The configurations of the model *)

\* longest array of a configuration
MaxItems == 1

Scalars == { Str("filesystem"), Str("azure-blob-storage"), Num(5) }

Arrays == { Arr(a) : a \in UNION { [1..n -> Scalars] : n \in 0..MaxItems } }

\* the functions from a part of K to V: the objects with keys in K
Members(K, V) == UNION { [D -> V] : D \in SUBSET K }

AzureObjects ==
    { Obj(m) : m \in Members({"storageAccountName", "storageContainerName"}, Scalars) }

JsonValues == Scalars \cup Arrays \cup AzureObjects

\* the objects with "$schema" and the keys in K
Configurations(K) ==
    { Obj(m[1] @@ m[2]) : m \in Members({"$schema"}, Scalars) \X Members(K, JsonValues) }

ProjectBuildCacheKeys == {"additionalProjectOutputFolderNames", "projectOutputFolderNames"}

BuildCacheKeys == {"cacheProvider", "projectOutputFolderNames",
                   "azureBlobStorageConfiguration"}

---------------------------------------------------------------------------
(* loadFromDefaultLocation *)

\* deepest working folder, counted in segments below the root
MaxDepth == 11

\* the bound of the for loop: i < 10
LookupLimit == 10

\* the folder depth segments below the root; the root is <<>>
Folder(depth) == [ k \in 1..depth |-> "d" ]

\* path.join(folder, name)
pathJoin(folder, name) == Append(folder, name)

\* a dirname that never leaves the folder
pathDirname_Self(folder) == folder

\* path.dirname(folder): the parent, and the root for the root
pathDirname(folder) ==
    IF folder = <<>> THEN <<>> ELSE SubSeq(folder, 1, Len(folder) - 1)

\* fs.existsSync(file)
existsSync(file) == file \in { pathJoin(f, "rush.json") : f \in rushJsonFolders }

NotFoundError == "Unable to find rush.json configuration file"

\* what JsonFile.loadJsonFile may read from the rush.json that was found: one
\* project, and a header the running rush accepts or finds too new
LocatedManifests ==
    { RushConfigJson(v, TRUE, ProjectList(<<"x">>, <<PlainShape>>)) :
        v \in {<<"1.0.0">>, <<"1.1.0">>} }

\* One pass of the for loop, its ++i and its test included. A rush.json that
\* exists is handed to loadFromConfigFile, which reads it; without one the
\* loop goes to the parent, and throws when there is none or i reaches 10.
LoadFromDefaultLocation ==
    /\ pc = "locating"
    /\ i < LookupLimit
    /\ LET file == pathJoin(currentFolder, "rush.json")
           parentFolder == pathDirname(currentFolder)
       IN  /\ examined' = Append(examined, file)
           /\ IF existsSync(file)
              THEN /\ rushJsonFilename' = file
                   /\ rushConfigJson' \in LocatedManifests
                   /\ pc' = "loaded"
                   /\ UNCHANGED <<currentFolder, i, error>>
              ELSE /\ UNCHANGED <<rushJsonFilename, rushConfigJson>>
                   /\ IF parentFolder = currentFolder
                      THEN /\ pc' = "error"
                           /\ error' = NotFoundError
                           /\ UNCHANGED <<currentFolder, i>>
                      ELSE /\ currentFolder' = parentFolder
                           /\ i' = i + 1
                           /\ IF i + 1 < LookupLimit
                              THEN pc' = "locating" /\ error' = error
                              ELSE pc' = "error" /\ error' = NotFoundError
    /\ UNCHANGED <<schemaValidated, tempNamesByProject, projects, projectsByName, idx,
                   schemaVars, cwd, rushJsonFolders>>

---------------------------------------------------------------------------
(* Specification of the loader *)

\* loadFromConfigFile is called with a file: nothing is searched
CalledWith(file) ==
    /\ cwd = <<>>
    /\ rushJsonFolders = IF file = <<>> THEN {} ELSE {<<>>}
    /\ currentFolder = <<>>
    /\ i = 0
    /\ examined = <<>>
    /\ rushJsonFilename = file

\* the state when loadFromConfigFile has read rush.json
Loaded(json) ==
    /\ rushConfigJson = json
    /\ pc = "loaded"
    /\ error = ""
    /\ schemaValidated = FALSE
    /\ tempNamesByProject = <<>>
    /\ projects = <<>>
    /\ projectsByName = <<>>
    /\ idx = 1
    /\ schemaName = "none"
    /\ configJson = <<>>
    /\ verdict = "pending"
    /\ CalledWith(<<"rush.json">>)

\* rush.json with any header and plain projects: no dependencies, no
\* cyclicDependencyProjects, any names, repeated or not
Init ==
    \E n \in 0..MaxProjects :
      \E names \in [1..n -> PackageNames] :
        \E rushMinimumVersion \in RushMinimumVersions, schemaValid \in BOOLEAN :
          Loaded(RushConfigJson(rushMinimumVersion, schemaValid,
                                ProjectList(names, [k \in 1..n |-> PlainShape])))

\* rush.json with a header that loads and projects that depend on each
\* other, no package name repeated
InitGraph ==
    \E n \in 0..MaxProjects :
      \E names \in [1..n -> PackageNames] :
        /\ DistinctNames(names)
        /\ \E shapes \in [1..n -> ProjectShapes] :
             Loaded(RushConfigJson(<<"1.0.0">>, TRUE, ProjectList(names, shapes)))

Next ==
    \/ CheckRushVersion
    \/ ValidateSchema
    \/ ConstructorPreamble
    \/ GenerateTempNamesForProjects
    \/ AddProject
    \/ LinkProject

Spec == Init /\ [][Next]_vars

SpecGraph == InitGraph /\ [][Next]_vars

\* loadFromDefaultLocation is called in a working folder, with rush.json in
\* any of the folders from the root down to it; no file is read yet
InitLocate ==
    /\ \E depth \in 0..MaxDepth :
         /\ cwd = Folder(depth)
         /\ rushJsonFolders \in SUBSET { Folder(d) : d \in 0..depth }
    /\ currentFolder = cwd
    /\ i = 0
    /\ examined = <<>>
    /\ rushJsonFilename = <<>>
    /\ rushConfigJson = RushConfigJson(<<>>, FALSE, <<>>)
    /\ pc = "locating"
    /\ error = ""
    /\ schemaValidated = FALSE
    /\ tempNamesByProject = <<>>
    /\ projects = <<>>
    /\ projectsByName = <<>>
    /\ idx = 1
    /\ schemaName = "none"
    /\ configJson = <<>>
    /\ verdict = "pending"

NextLocate ==
    \/ LoadFromDefaultLocation
    \/ Next

\* the call runs on one thread, to its return or its throw
SpecLocate == InitLocate /\ [][NextLocate]_vars /\ WF_vars(NextLocate)

\* a cache configuration of either kind, not yet validated; nothing is loaded
InitSchema ==
    /\ rushConfigJson = RushConfigJson(<<>>, FALSE, <<>>)
    /\ pc = "idle"
    /\ error = ""
    /\ schemaValidated = FALSE
    /\ tempNamesByProject = <<>>
    /\ projects = <<>>
    /\ projectsByName = <<>>
    /\ idx = 1
    /\ verdict = "pending"
    /\ CalledWith(<<>>)
    /\ \/ schemaName = "project-build-cache"
          /\ configJson \in Configurations(ProjectBuildCacheKeys)
       \/ schemaName = "build-cache"
          /\ configJson \in Configurations(BuildCacheKeys)

NextSchema == ValidateConfiguration

SpecSchema == InitSchema /\ [][NextSchema]_vars

---------------------------------------------------------------------------
(* Vocabulary of the properties *)

Range(seq) == { seq[k] : k \in 1..Len(seq) }

\* the package names a "projects" array declares
DeclaredNames(projectJsons) == { projectJsons[k].packageName : k \in 1..Len(projectJsons) }

\* the package names that occur more than once in a "projects" array
RepeatedNames(projectJsons) ==
    { projectJsons[a].packageName : a \in { a \in 1..Len(projectJsons) :
        \E b \in 1..Len(projectJsons) :
            a # b /\ projectJsons[a].packageName = projectJsons[b].packageName } }

\* the first loop has ended without an Error
Registered == pc \in {"linkProjects", "done"}

\* _generateTempNamesForProjects has returned
TempNamesAssigned == pc \in {"addProjects", "linkProjects", "done"}

\* the orders in which the entries of an array can be listed
Reorderings(seq) ==
    { [ k \in 1..Len(seq) |-> seq[f[k]] ] :
        f \in { g \in [1..Len(seq) -> 1..Len(seq)] :
                  \A a, b \in 1..Len(seq) : a # b => g[a] # g[b] } }

\* the temp name _generateTempNamesForProjects gives to a package name of an array
TempNameOf(projectJsons, packageName) ==
    LET sorted == SortProjects(projectJsons)
        k == CHOOSE k \in 1..Len(sorted) : sorted[k].packageName = packageName
    IN  AssignTempNames(sorted)[k]

\* the lowest number from k on whose suffixed name is unused
RECURSIVE LowestFreeSuffix(_, _, _)
LowestFreeSuffix(base, k, used) ==
    IF (base \o "-" \o ToString(k)) \in used
    THEN LowestFreeSuffix(base, k + 1, used) ELSE k

\* the dependencies between declared projects that no cyclicDependencyProjects
\* of either end covers, as pairs of array positions
UncoveredEdges(projectJsons) ==
    { e \in (1..Len(projectJsons)) \X (1..Len(projectJsons)) :
        /\ projectJsons[e[2]].packageName \in Range(projectJsons[e[1]].dependencies)
        /\ projectJsons[e[2]].packageName \notin projectJsons[e[1]].cyclicDependencyProjects
        /\ projectJsons[e[1]].packageName \notin projectJsons[e[2]].cyclicDependencyProjects }

\* a relation with the pairs its paths of two steps join
Compose(R) ==
    R \cup { <<p[1][1], p[2][2]>> : p \in { q \in R \X R : q[1][2] = q[2][1] } }

RECURSIVE Closure(_, _)
Closure(R, k) == IF k = 0 THEN R ELSE Closure(Compose(R), k - 1)

\* the uncovered dependencies of an array contain a cycle
HasUncoveredCycle(projectJsons) ==
    \E a \in 1..Len(projectJsons) :
        <<a, a>> \in Closure(UncoveredEdges(projectJsons), Len(projectJsons))

\* the cyclicDependencyProjects entries of an array that name no declared project
UndeclaredCyclic(projectJsons) ==
    UNION { projectJsons[k].cyclicDependencyProjects : k \in 1..Len(projectJsons) }
        \ DeclaredNames(projectJsons)

\* the Errors thrown before the constructor reaches the projects
EarlyErrors ==
    { VersionError(v) : v \in DOMAIN SemVers } \cup {SchemaError}
        \cup { PreambleError(env) : env \in Environments }

---------------------------------------------------------------------------
(* Temp names *)

\* C1: the temp names _generateTempNamesForProjects assigns are pairwise
\* distinct, one per entry of "projects".
C1_TempNamesDistinct ==
    TempNamesAssigned =>
        /\ Len(tempNamesByProject) = Len(rushConfigJson.projects)
        /\ \A a, b \in 1..Len(tempNamesByProject) :
             a # b => tempNamesByProject[a] # tempNamesByProject[b]

\* three names were assigned, and "x-1" met the suffixed name of another project
C1_Witness ==
    /\ TempNamesAssigned
    /\ Len(tempNamesByProject) = 3
    /\ \E k \in 1..3 : /\ rushConfigJson.projects[k].packageName = "x-1"
                       /\ tempNamesByProject[k] = "rush-x-1-1"

\* C2: the assignment does not depend on the order of "projects": listed in
\* any other order, the same projects get the same temp names.
C2_OrderIndependent ==
    (TempNamesAssigned /\ RepeatedNames(rushConfigJson.projects) = {}) =>
        \A other \in Reorderings(rushConfigJson.projects) :
            \A k \in 1..Len(rushConfigJson.projects) :
                TempNameOf(other, rushConfigJson.projects[k].packageName)
                    = tempNamesByProject[k]

\* C3: among projects of distinct package names, one whose base name
\* "rush-<unscoped name>" is taken by an earlier one gets the base name with
\* the lowest unused suffix, counted from 2; the others get the base name.
C3_SuffixFromTwo ==
    (TempNamesAssigned /\ RepeatedNames(rushConfigJson.projects) = {}) =>
        \A k \in 1..Len(tempNamesByProject) :
            LET base == "rush-" \o parseScopedPackgeName(
                                       rushConfigJson.projects[k].packageName).name
                used == { tempNamesByProject[m] : m \in 1..(k - 1) }
            IN  tempNamesByProject[k] =
                    IF base \in used
                    THEN base \o "-" \o ToString(LowestFreeSuffix(base, 2, used))
                    ELSE base

---------------------------------------------------------------------------
(* The registry of projects *)

\* C5: a package name listed twice makes the constructor fail with the Error
\* that names it; in a constructed RushConfig the names are distinct and
\* projectsByName maps each project's name to that project, and nothing else.
C5_DuplicateNamesRejected ==
    /\ RepeatedNames(rushConfigJson.projects) # {} => ~Registered
    /\ \A n \in PackageNames :
         (pc = "error" /\ error = DuplicateError(n)) =>
             n \in RepeatedNames(rushConfigJson.projects)
    /\ Registered =>
         /\ RepeatedNames(rushConfigJson.projects) = {}
         /\ Len(projects) = Len(rushConfigJson.projects)
         /\ DOMAIN projectsByName = { projects[k].packageName : k \in 1..Len(projects) }
         /\ \A k \in 1..Len(projects) : projectsByName[projects[k].packageName] = k

\* the third entry repeated a name, and the constructor threw
C5_Witness ==
    /\ pc = "error"
    /\ Len(projects) = 3
    /\ error = DuplicateError(projects[3].packageName)
    /\ projects[3].packageName \in RepeatedNames(rushConfigJson.projects)

---------------------------------------------------------------------------
(* loadFromConfigFile *)

\* C8: a valid rushMinimumVersion above the tool's version fails the load with
\* the version Error and the schema is never applied, also when the schema
\* would reject the file; a missing or malformed rushMinimumVersion raises no
\* version Error and the schema is applied.
C8_VersionBeforeSchema ==
    LET v == rushConfigJson.rushMinimumVersion
        newer == v # <<>> /\ semverValid(v[1]) /\ semverLt(rushVersion, v[1])
        unusable == v = <<>> \/ ~semverValid(v[1])
    IN  /\ newer => /\ ~schemaValidated
                    /\ pc \in {"loaded", "error"}
                    /\ pc = "error" => error = VersionError(v[1])
        /\ unusable => /\ error \notin { VersionError(w) : w \in DOMAIN SemVers }
                       /\ pc \notin {"loaded", "versionChecked"} => schemaValidated
        /\ error \in { VersionError(w) : w \in DOMAIN SemVers } => ~schemaValidated

\* a file that is too new and also schema-invalid has failed on its version
C8_Witness ==
    /\ pc = "error"
    /\ rushConfigJson.rushMinimumVersion = <<"1.1.0">>
    /\ ~rushConfigJson.schemaValid
    /\ error = VersionError("1.1.0")
    /\ ~schemaValidated

---------------------------------------------------------------------------
(* The dependency graph *)

C6_CyclicReferencesResolve ==
    /\ UndeclaredCyclic(rushConfigJson.projects) # {} => pc # "done"
    /\ pc = "done" =>
         \A k \in 1..Len(projects) :
             \A c \in projects[k].cyclicDependencyProjects :
                 getProjectByName(projectsByName, c)

\* the second of three projects referred to an undeclared one, and the
\* constructor threw
C6_Witness ==
    /\ pc = "error"
    /\ Len(projects) = 3
    /\ idx = 2
    /\ \E c \in UndeclaredCyclic(rushConfigJson.projects) :
         error = CyclicError(c, projects[2].packageName)

\* C7: in a constructed RushConfig, A is in B's downstreamDependencyProjects
\* exactly if B is a key of A's dependencies; the lists hold names of declared
\* projects only, and a project no declared project depends on has none.
C7_DownstreamIsReverseOfDependencies ==
    pc = "done" =>
        /\ \A a, b \in 1..Len(projects) :
             projects[a].packageName \in Range(projects[b].downstreamDependencyProjects)
                 <=> projects[b].packageName \in Range(projects[a].dependencies)
        /\ \A b \in 1..Len(projects) :
             /\ Range(projects[b].downstreamDependencyProjects)
                    \subseteq { projects[a].packageName : a \in 1..Len(projects) }
             /\ (\A a \in 1..Len(projects) :
                    projects[b].packageName \notin Range(projects[a].dependencies))
                  => projects[b].downstreamDependencyProjects = <<>>

\* a RushConfig in which one project has two dependents, one has none, and
\* one depends on a package that is not declared
C7_Witness ==
    /\ pc = "done"
    /\ \E b \in 1..Len(projects) : Len(projects[b].downstreamDependencyProjects) = 2
    /\ \E b \in 1..Len(projects) : projects[b].downstreamDependencyProjects = <<>>
    /\ \E a \in 1..Len(projects) :
         ~(Range(projects[a].dependencies)
               \subseteq { projects[b].packageName : b \in 1..Len(projects) })

\* the names of the entries of projectJsons that have packageName among the
\* keys of their dependencies, in the order of the entries
DependentsInOrder(projectJsons, packageName) ==
    LET DependsOn(p) == packageName \in Range(p.dependencies)
        dependents == SelectSeq(projectJsons, DependsOn)
    IN  [ k \in 1..Len(dependents) |-> dependents[k].packageName ]

\* no element of seq occurs twice
NoRepeats(seq) == \A a, b \in 1..Len(seq) : a # b => seq[a] # seq[b]

\* the manifest of the scenario: core, utils, app declared in this order, utils
\* depending on core, app on core and utils with its keys in the given order
\* (the core is "@b/x", so that the declaration order is not the name order)
ScenarioManifest(appKeys) ==
    <<ProjectJson("@b/x", PlainShape),
      ProjectJson("@a/x", [cyclicDependencyProjects |-> {}, dependencies |-> <<"@b/x">>]),
      ProjectJson("x", [cyclicDependencyProjects |-> {}, dependencies |-> appKeys])>>

\* C11: no step of the loader reorders "projects" of rush.json, and in a
\* constructed RushConfig each downstreamDependencyProjects lists the
\* dependents of its project in the order rush.json declares them, each once;
\* in the scenario the list of core is [utils, app] for either key order of app.
C11_DownstreamInDeclarationOrder ==
    [][ /\ rushConfigJson'.projects = rushConfigJson.projects
        /\ pc' = "done" =>
             /\ \A b \in 1..Len(projects') :
                  /\ projects'[b].downstreamDependencyProjects
                       = DependentsInOrder(rushConfigJson.projects, projects'[b].packageName)
                  /\ NoRepeats(projects'[b].downstreamDependencyProjects)
             /\ \A appKeys \in {<<"@b/x", "@a/x">>, <<"@a/x", "@b/x">>} :
                  rushConfigJson.projects = ScenarioManifest(appKeys)
                      => projects'[1].downstreamDependencyProjects = <<"@a/x", "x">> ]_vars

\* the scenario constructed with the keys of app in the order utils, core:
\* the list of core is [utils, app], which is neither the key order of app
\* nor the order of the names of the projects
C11_Witness ==
    /\ pc = "done"
    /\ rushConfigJson.projects = ScenarioManifest(<<"@a/x", "@b/x">>)
    /\ projects[1].packageName = "@b/x"
    /\ projects[1].downstreamDependencyProjects = <<"@a/x", "x">>

---------------------------------------------------------------------------
(* The cache schemas *)

\* the keys of the configuration being validated
ConfigKeys == DOMAIN configJson.members

\* C9: additionalProjectOutputFolderNames and projectOutputFolderNames are
\* mutually exclusive in a project's cache override: a configuration with
\* both keys is not accepted, and neither is a configuration with none.
C9_KeysMutuallyExclusive ==
    (schemaName = "project-build-cache" /\ verdict = "accepted") =>
        Cardinality(ConfigKeys \cap ProjectBuildCacheKeys) = 1

---------------------------------------------------------------------------
(* The claim on loadFromDefaultLocation, under SpecLocate *)

\* the folder k levels above folder
Ancestor(folder, k) == SubSeq(folder, 1, Len(folder) - k)

\* the levels above the working folder the search reaches: the first ten,
\* and none above the root
ReachedLevels ==
    { k \in 0..(LookupLimit - 1) : k <= Len(cwd) }

\* the reached levels whose folder holds a rush.json
FoundLevels == { k \in ReachedLevels : Ancestor(cwd, k) \in rushJsonFolders }

\* the search is over
Located == pc # "locating"

\* C12: loadFromDefaultLocation terminates. It asks for rush.json in the
\* working folder and then in its parents in turn, in at most 10 folders and
\* in none above the root; when the search is over, the file handed to
\* loadFromConfigFile is the rush.json of the nearest of these folders that
\* has one, and if none has (as when the only rush.json is 10 or more levels
\* up) the Error is 'Unable to find rush.json configuration file'.
C12_LocateTerminates ==
    /\ [](/\ Len(examined) <= LookupLimit
          /\ \A k \in 1..Len(examined) :
               /\ k - 1 \in ReachedLevels
               /\ examined[k] = Append(Ancestor(cwd, k - 1), "rush.json")
          /\ Located =>
               IF FoundLevels # {}
               THEN LET nearest == CHOOSE k \in FoundLevels : \A m \in FoundLevels : k <= m
                    IN  /\ rushJsonFilename = Append(Ancestor(cwd, nearest), "rush.json")
                        /\ Len(examined) = nearest + 1
                        /\ error # NotFoundError
               ELSE /\ pc = "error"
                    /\ error = NotFoundError
                    /\ rushJsonFilename = <<>>)
    /\ <>(pc \in {"done", "error"})

\* a RushConfig loaded from the tenth folder asked about, 9 levels above the
\* working folder, while the folder 10 levels above has a rush.json too
C12_Witness ==
    /\ pc = "done"
    /\ Len(cwd) = MaxDepth
    /\ rushJsonFolders = { Ancestor(cwd, 9), Ancestor(cwd, 10) }
    /\ Len(examined) = LookupLimit
    /\ rushJsonFilename = Append(Ancestor(cwd, 9), "rush.json")

\* a search that gives up after ten folders, the only rush.json being 10
\* levels above the working folder
C12_WitnessNotFound ==
    /\ Len(cwd) = MaxDepth
    /\ rushJsonFolders = { Ancestor(cwd, 10) }
    /\ Len(examined) = LookupLimit
    /\ error = NotFoundError

=============================================================================
